---- MODULE Spec2Model ----
(***************************************************************************)
(* Model of SigDigger's panoramic spectrum dialog                          *)
(* (Components/PanoramicDialog.cpp): the scan range kept in the two range  *)
(* spin boxes, the zoom / pan retune window, the saved spectrum fed by the *)
(* scanner, and the signals the dialog emits.                              *)
(*                                                                         *)
(* Frequencies are whole Hz.  The Waterfall widget and the Qt spin boxes   *)
(* are collaborators outside this repository: the model keeps the values   *)
(* the dialog writes into them and reads back from them.                   *)
(***************************************************************************)
EXTENDS Integers, Sequences, FiniteSets, TLC

(* ------------------------------ bounds -------------------------------- *)
\* largest waterfall span a zoom event may report
MaxSpan == 3
\* largest distance of the waterfall's FFT centre from its centre frequency
MaxOffset == 2
\* cap of the frame counter in the model
MaxFrames == 2
\* longest sample vector of a fed frame
MaxLen == 2
\* largest start / end frequency of a fed frame
MaxFrameFreq == 1
\* largest frequency of the pure zoom-window inputs
MaxFreq == 4
\* largest centre frequency of the pure zoom-window inputs
MaxCenter == 7

(* --------------------------- small helpers ---------------------------- *)
Min2(a, b) == IF a <= b THEN a ELSE b

Max2(a, b) == IF a >= b THEN a ELSE b

Abs(x) == IF x < 0 THEN -x ELSE x

\* C++ integer division by two truncates towards zero
CDiv2(x) == IF x >= 0 THEN x \div 2 ELSE -((-x) \div 2)

\* QAbstractSpinBox keeps its value inside [minimum, maximum]
Bound(lo, v, hi) == Max2(lo, Min2(v, hi))

(* ----------------------- devices (Suscan::Source) --------------------- *)
Devices ==
  { [desc |-> "devA", driver |-> "rtlsdr", minFreq |-> 0, maxFreq |-> 3],
    [desc |-> "devB", driver |-> "hackrf", minFreq |-> 1, maxFreq |-> 4] }

NoDevice == [desc |-> "", driver |-> "", minFreq |-> 0, maxFreq |-> 0]

LnbOffsets == {0, 1}

DeviceByDesc(name) ==
  IF \E d \in Devices : d.desc = name
  THEN CHOOSE d \in Devices : d.desc = name
  ELSE NoDevice

(* ------------------- zoom window (PanoramicDialog) -------------------- *)
\* getRelBw(): the slider holds a percentage
RelBwPercent == {50, 100}

\* the comparison  max - min <= m_minBwForZoom * getRelBw()  in hundredths
NoHop(min, max, minBwForZoom, relBwSlider) ==
  (max - min) * 100 <= minBwForZoom * relBwSlider

\* variant of getZoomRange: a window clamped at one border keeps its other
\* bound where it was
ZoomRange_NoShift(fc, span, rangeMin, rangeMax, minBwForZoom, relBwSlider) ==
  LET min0 == fc - CDiv2(span)
      max0 == fc + CDiv2(span)
      leftBorder  == min0 <= rangeMin
      rightBorder == max0 >= rangeMax
      min1 == IF leftBorder THEN rangeMin ELSE min0
      max1 == IF rightBorder THEN rangeMax ELSE max0
  IN  [min |-> min1, max |-> max1,
       noHop |-> NoHop(min1, max1, minBwForZoom, relBwSlider),
       leftBorder |-> leftBorder, rightBorder |-> rightBorder]

\* variant of getZoomRange: noHop is decided on the requested span
ZoomRange_NoHopOnSpan(fc, span, rangeMin, rangeMax, minBwForZoom, relBwSlider) ==
  LET min0 == fc - CDiv2(span)
      max0 == fc + CDiv2(span)
      leftBorder  == min0 <= rangeMin
      rightBorder == max0 >= rangeMax
      min1 == IF leftBorder THEN rangeMin ELSE min0
      max1 == IF rightBorder THEN rangeMax ELSE max0
      min2 == IF rightBorder /\ ~leftBorder THEN max1 - span ELSE min1
      max2 == IF leftBorder /\ ~rightBorder THEN min1 + span ELSE max1
  IN  [min |-> min2, max |-> max2,
       noHop |-> NoHop(0, span, minBwForZoom, relBwSlider),
       leftBorder |-> leftBorder, rightBorder |-> rightBorder]

\* variant of getZoomRange: a window clamped on the left is shifted even
\* when it is clamped on the right too
ZoomRange_ShiftWhenBoth(fc, span, rangeMin, rangeMax, minBwForZoom, relBwSlider) ==
  LET min0 == fc - CDiv2(span)
      max0 == fc + CDiv2(span)
      leftBorder  == min0 <= rangeMin
      rightBorder == max0 >= rangeMax
      min1 == IF leftBorder THEN rangeMin ELSE min0
      max1 == IF rightBorder THEN rangeMax ELSE max0
      min2 == IF rightBorder /\ ~leftBorder THEN max1 - span ELSE min1
      max2 == IF leftBorder THEN min1 + span ELSE max1
  IN  [min |-> min2, max |-> max2,
       noHop |-> NoHop(min2, max2, minBwForZoom, relBwSlider),
       leftBorder |-> leftBorder, rightBorder |-> rightBorder]

\* getZoomRange(min, max, noHop): fc is getCenterFreq() + getFftCenterFreq(),
\* span is getSpanFreq(), rangeMin / rangeMax are getMinFreq() / getMaxFreq()
ZoomRange(fc, span, rangeMin, rangeMax, minBwForZoom, relBwSlider) ==
  LET min0 == fc - CDiv2(span)
      max0 == fc + CDiv2(span)
      leftBorder  == min0 <= rangeMin
      rightBorder == max0 >= rangeMax
      min1 == IF leftBorder THEN rangeMin ELSE min0
      max1 == IF rightBorder THEN rangeMax ELSE max0
      min2 == IF rightBorder /\ ~leftBorder THEN max1 - span ELSE min1
      max2 == IF leftBorder /\ ~rightBorder THEN min1 + span ELSE max1
  IN  [min |-> min2, max |-> max2,
       noHop |-> NoHop(min2, max2, minBwForZoom, relBwSlider),
       leftBorder |-> leftBorder, rightBorder |-> rightBorder]

\* variant of the pan window: a clamped window keeps its other bound
FollowWindow_NoShift(freq, span, rangeMin, rangeMax) ==
  LET min0 == freq - CDiv2(span)
      max0 == freq + CDiv2(span)
  IN  [min |-> IF min0 <= rangeMin THEN rangeMin ELSE min0,
       max |-> IF max0 >= rangeMax THEN rangeMax ELSE max0]

\* the window computed by onNewFftCenterFreq(freq): freq is already the
\* absolute centre (offset + getCenterFreq()), span is m_currBw
FollowWindow(freq, span, rangeMin, rangeMax) ==
  LET min0 == freq - CDiv2(span)
      max0 == freq + CDiv2(span)
      leftBorder  == min0 <= rangeMin
      rightBorder == max0 >= rangeMax
      min1 == IF leftBorder THEN rangeMin ELSE min0
      max1 == IF rightBorder THEN rangeMax ELSE max0
  IN  [min |-> IF rightBorder /\ ~leftBorder THEN max1 - span ELSE min1,
       max |-> IF leftBorder /\ ~rightBorder THEN min1 + span ELSE max1]

(* ------------------------------ state --------------------------------- *)
VARIABLES
  dlg,    \* the PanoramicDialog object: members, ui widgets, waterfall
  last,   \* the operation that produced the current state, with its input
  zin,    \* inputs of a stand-alone evaluation of a const member function
  zout,   \* its result
  loop,   \* the GUI thread: where it stands, and the frames posted to it
  exp     \* onExport(): where its prompt loop stands, and the files written

vars == <<dlg, last, zin, zout, loop, exp>>

NoOp == [op |-> "none", arg |-> <<>>, rangeChanged |-> FALSE]

InitLoop ==
  [pc |-> "idle", val |-> 0, queue |-> <<>>, fedAt |-> "none", fedPostedAt |-> "none"]

EmptySpectrum == [start |-> 0, end |-> 0, data |-> <<>>]

\* the paths the file dialog can return; the second cannot be opened
Paths == {"spectrum.m", "readonly.m"}

Writable == {"spectrum.m"}

NoFile == <<>>

InitExport ==
  [pc |-> "idle", result |-> "none", tries |-> 0,
   files |-> [p \in Paths |-> NoFile]]

\* signals emitted by the handler that produced the current state;
\* a detailChanged also records the scan range in force when it was emitted
Detail(min, max, fixed, s) ==
  [sig |-> "detailChanged", min |-> min, max |-> max, fixed |-> fixed,
   rangeMin |-> s.rangeStartSpin.value, rangeMax |-> s.rangeEndSpin.value]

Plain(name) ==
  [sig |-> name, min |-> 0, max |-> 0, fixed |-> FALSE,
   rangeMin |-> 0, rangeMax |-> 0]

Emit(s, signal) == [s EXCEPT !.emitted = Append(@, signal)]

Begin(s) == [s EXCEPT !.emitted = <<>>]

\* the upper limit of the range spin boxes before a device set them
SpinCeil == 5

InitDialog ==
  [ rangeStartSpin   |-> [value |-> 0, minimum |-> 0, maximum |-> SpinCeil],
    rangeEndSpin     |-> [value |-> 0, minimum |-> 0, maximum |-> SpinCeil],
    lnbDoubleSpinBox |-> 0,
    fullRangeCheck   |-> FALSE,
    m_deviceMap      |-> {},
    deviceCombo      |-> "",
    rttSpin          |-> 0,
    scanButton       |-> FALSE,
    scanButtonText   |-> "Start scan",
    enabled          |-> [deviceCombo |-> TRUE, fullRangeCheck |-> TRUE,
                          rangeSpins |-> TRUE, lnbDoubleSpinBox |-> TRUE,
                          sampleRateSpin |-> TRUE],
    executing        |-> FALSE,
    m_bannedDevice   |-> "",
    m_running        |-> FALSE,
    m_waterfall      |-> FALSE,
    wf               |-> [centerFreq |-> 0, spanFreq |-> 0, fftCenterFreq |-> 0,
                          partial |-> FALSE, running |-> FALSE,
                          FATs |-> {}, FATsVisible |-> FALSE],
    m_FATs           |-> <<>>,
    allocationCombo  |-> [data |-> <<>>, currentIndex |-> -1],
    m_currentFAT     |-> "",
    sampleRateSpin   |-> 1,
    sampRate         |-> 1,
    m_frames         |-> 0,
    m_saved          |-> EmptySpectrum,
    m_freqStart      |-> 0,
    m_freqEnd        |-> 0,
    exportButton     |-> FALSE,
    m_fixedFreqMode  |-> FALSE,
    m_currBw         |-> 0,
    m_minBwForZoom   |-> 0,
    relBwSlider      |-> 50,
    gains            |-> <<>>,
    m_dialogConfig   |-> [device |-> "", lnbFreq |-> 0, rangeMin |-> 0,
                          rangeMax |-> 0, fullRange |-> FALSE],
    emitted          |-> <<>> ]

Init ==
  /\ dlg = InitDialog
  /\ last = NoOp
  /\ zin = <<>>
  /\ zout = <<>>
  /\ loop = InitLoop
  /\ exp = InitExport

(* ----------------------------- handlers ------------------------------ *)
\* refreshUi(): widget enabling and the checked state of the scan button
refreshUi(s) ==
  LET empty == s.m_deviceMap = {}
  IN  [s EXCEPT
        !.enabled = [deviceCombo      |-> ~s.m_running /\ ~empty,
                     fullRangeCheck   |-> ~s.m_running /\ ~empty,
                     rangeSpins       |-> ~s.m_running /\ ~empty /\ ~s.fullRangeCheck,
                     lnbDoubleSpinBox |-> ~s.m_running,
                     sampleRateSpin   |-> ~s.m_running],
        !.scanButton = s.m_running]

getMinFreq(s) == s.rangeStartSpin.value

getMaxFreq(s) == s.rangeEndSpin.value

getLnbOffset(s) == s.lnbDoubleSpinBox

\* getSelectedDevice(dev): the device named by the combo, when the map has it
hasSelectedDevice(s) == s.deviceCombo \in s.m_deviceMap

getSelectedDevice(s) ==
  IF hasSelectedDevice(s) THEN DeviceByDesc(s.deviceCombo) ELSE NoDevice

\* variant of invalidRange: the difference is taken without fabs
invalidRange_Signed(s) == s.rangeEndSpin.value - s.rangeStartSpin.value < 1

\* invalidRange(): fabs(end - start) < 1
invalidRange(s) == Abs(s.rangeEndSpin.value - s.rangeStartSpin.value) < 1

\* variant of adjustRanges: the saved spectrum is dropped with the partial data
adjustWaterfall_DropsSaved(s) ==
  IF s.m_waterfall
  THEN [s EXCEPT !.wf.spanFreq = s.rangeEndSpin.value - s.rangeStartSpin.value,
                 !.wf.centerFreq = CDiv2(s.rangeEndSpin.value + s.rangeStartSpin.value),
                 !.wf.fftCenterFreq = 0,
                 !.wf.partial = FALSE,
                 !.m_saved = [start |-> 0, end |-> 0, data |-> <<>>]]
  ELSE s

\* variant of adjustRanges: the fixed-mode flag is cleared with the zoom
adjustWaterfall_ResetsFixedMode(s) ==
  IF s.m_waterfall
  THEN [s EXCEPT !.wf.spanFreq = s.rangeEndSpin.value - s.rangeStartSpin.value,
                 !.wf.centerFreq = CDiv2(s.rangeEndSpin.value + s.rangeStartSpin.value),
                 !.wf.fftCenterFreq = 0,
                 !.wf.partial = FALSE,
                 !.m_fixedFreqMode = FALSE]
  ELSE s

\* the waterfall part of adjustRanges(): span, sample rate and centre follow
\* the range, the horizontal zoom is reset, the partial FFT data dropped
adjustWaterfall(s) ==
  IF s.m_waterfall
  THEN LET minFreq == s.rangeStartSpin.value
           maxFreq == s.rangeEndSpin.value
       IN  [s EXCEPT !.wf.spanFreq = maxFreq - minFreq,
                     !.wf.centerFreq = CDiv2(maxFreq + minFreq),
                     !.wf.fftCenterFreq = 0,
                     !.wf.partial = FALSE]
  ELSE s

RECURSIVE adjustRanges(_), setRangeStartValue(_, _), setRangeEndValue(_, _)

\* rangeStartSpin->setValue(v): the value is bounded; a change raises
\* valueChanged, which is connected to onFreqRangeChanged -> adjustRanges
setRangeStartValue(s, v) ==
  LET nv == Bound(s.rangeStartSpin.minimum, v, s.rangeStartSpin.maximum)
  IN  IF nv = s.rangeStartSpin.value
      THEN s
      ELSE adjustRanges([s EXCEPT !.rangeStartSpin.value = nv])

setRangeEndValue(s, v) ==
  LET nv == Bound(s.rangeEndSpin.minimum, v, s.rangeEndSpin.maximum)
  IN  IF nv = s.rangeEndSpin.value
      THEN s
      ELSE adjustRanges([s EXCEPT !.rangeEndSpin.value = nv])

\* variant of adjustRanges: reversed bounds are left as they are
adjustRanges_NoSwap(s) == adjustWaterfall(s)

\* adjustRanges(): swap reversed bounds, then bring the waterfall in line
adjustRanges(s) ==
  LET swapped ==
        IF s.rangeStartSpin.value > s.rangeEndSpin.value
        THEN LET val == s.rangeStartSpin.value
             IN  setRangeEndValue(
                   setRangeStartValue(s, s.rangeEndSpin.value), val)
        ELSE s
  IN  adjustWaterfall(swapped)

\* setMinimum / setMaximum of a range spin box: the other limit gives way,
\* the value is bounded again (and reported when it moved)
setRangeStartLimits(s, lo, hi) ==
  setRangeStartValue(
    [s EXCEPT !.rangeStartSpin.minimum = lo, !.rangeStartSpin.maximum = hi],
    s.rangeStartSpin.value)

setRangeEndLimits(s, lo, hi) ==
  setRangeEndValue(
    [s EXCEPT !.rangeEndSpin.minimum = lo, !.rangeEndSpin.maximum = hi],
    s.rangeEndSpin.value)

\* variant of setRanges: an invalid range is kept, only the full-range
\* check box brings the device range
setRanges_KeepsInvalid(s, dev) ==
  LET minFreq == dev.minFreq + getLnbOffset(s)
      maxFreq == dev.maxFreq + getLnbOffset(s)
      s1 == setRangeStartLimits(s, minFreq, Max2(minFreq, s.rangeStartSpin.maximum))
      s2 == setRangeStartLimits(s1, Min2(s1.rangeStartSpin.minimum, maxFreq), maxFreq)
      s3 == setRangeEndLimits(s2, minFreq, Max2(minFreq, s2.rangeEndSpin.maximum))
      s4 == setRangeEndLimits(s3, Min2(s3.rangeEndSpin.minimum, maxFreq), maxFreq)
      s5 == IF s4.fullRangeCheck
            THEN setRangeEndValue(setRangeStartValue(s4, minFreq), maxFreq)
            ELSE s4
  IN  adjustRanges(s5)

\* setRanges(dev): spin limits from the device and the LNB offset, the full
\* device range when the stored one is invalid or full range is checked
setRanges(s, dev) ==
  LET minFreq == dev.minFreq + getLnbOffset(s)
      maxFreq == dev.maxFreq + getLnbOffset(s)
      s1 == setRangeStartLimits(s, minFreq, Max2(minFreq, s.rangeStartSpin.maximum))
      s2 == setRangeStartLimits(s1, Min2(s1.rangeStartSpin.minimum, maxFreq), maxFreq)
      s3 == setRangeEndLimits(s2, minFreq, Max2(minFreq, s2.rangeEndSpin.maximum))
      s4 == setRangeEndLimits(s3, Min2(s3.rangeEndSpin.minimum, maxFreq), maxFreq)
      s5 == IF invalidRange(s4) \/ s4.fullRangeCheck
            THEN setRangeEndValue(setRangeStartValue(s4, minFreq), maxFreq)
            ELSE s4
  IN  adjustRanges(s5)

\* variant of preferredRttMs: the entries of airspy and hackrf are exchanged
preferredRttMs_Exchanged(dev) ==
  CASE dev.driver = "rtlsdr" -> 5
    [] dev.driver = "airspy" -> 10
    [] dev.driver = "hackrf" -> 16
    [] dev.driver = "uhd"    -> 2
    [] OTHER                 -> 0

\* preferredRttMs(dev)
preferredRttMs(dev) ==
  CASE dev.driver = "rtlsdr" -> 5
    [] dev.driver = "airspy" -> 16
    [] dev.driver = "hackrf" -> 10
    [] dev.driver = "uhd"    -> 2
    [] OTHER                 -> 0

\* onDeviceChanged(), the branch taken when getSelectedDevice found dev
onDeviceChanged_selected(s, dev) ==
  LET rtt == preferredRttMs(dev)
      s1  == setRanges(s, dev)
      s2  == IF rtt # 0 THEN [s1 EXCEPT !.rttSpin = rtt] ELSE s1
      s3  == IF s2.fullRangeCheck
             THEN setRangeEndValue(
                    setRangeStartValue(s2, dev.minFreq + getLnbOffset(s2)),
                    dev.maxFreq + getLnbOffset(s2))
             ELSE s2
  IN  adjustRanges(s3)

\* onDeviceChanged()
onDeviceChanged(s) ==
  IF hasSelectedDevice(s)
  THEN onDeviceChanged_selected(s, getSelectedDevice(s))
  ELSE adjustRanges(s)

\* onFullRangeChanged()
onFullRangeChanged(s) ==
  LET dev == getSelectedDevice(s)
      s1 == IF hasSelectedDevice(s) /\ s.fullRangeCheck
            THEN setRangeEndValue(
                   setRangeStartValue(s, dev.minFreq + getLnbOffset(s)),
                   dev.maxFreq + getLnbOffset(s))
            ELSE s
  IN  refreshUi(s1)

\* onLnbOffsetChanged()
onLnbOffsetChanged(s) ==
  IF hasSelectedDevice(s) THEN setRanges(s, getSelectedDevice(s)) ELSE s

\* populateDeviceCombo(): the combo is refilled from the device list, its
\* first entry becomes current
populateDeviceCombo(s) ==
  LET names == {d.desc : d \in Devices}
      s1 == [s EXCEPT !.m_deviceMap = names, !.deviceCombo = "devA"]
  IN  refreshUi(IF names # {} THEN onDeviceChanged(s1) ELSE s1)

\* variant of onSampleRateSpinChanged: the rate is stored while scanning too
onSampleRateSpinChanged_AlwaysStores(s) == [s EXCEPT !.sampRate = s.sampleRateSpin]

\* onSampleRateSpinChanged(): the preferred rate is stored unless scanning
onSampleRateSpinChanged(s) ==
  IF ~s.m_running THEN [s EXCEPT !.sampRate = s.sampleRateSpin] ELSE s

\* sampleRateSpin->setValue(v): valueChanged -> onSampleRateSpinChanged
setSampleRateValue(s, v) ==
  IF v = s.sampleRateSpin
  THEN s
  ELSE onSampleRateSpinChanged([s EXCEPT !.sampleRateSpin = v])

\* setMinBwForZoom(bw)
setMinBwForZoom(s, bw) ==
  setSampleRateValue([s EXCEPT !.m_minBwForZoom = bw], bw)

\* variant of setRunning: the frame counter goes on across scans
setRunning_begin_KeepsCount(s, running) ==
  IF ~running /\ s.m_running
  THEN setSampleRateValue(s, s.sampRate)
  ELSE s

\* setRunning(running), first statement: the frame counter restarts with a
\* scan, the preferred sample rate returns to its spin box when one ends
setRunning_begin(s, running) ==
  IF running /\ ~s.m_running
  THEN [s EXCEPT !.m_frames = 0]
  ELSE IF ~running /\ s.m_running
       THEN setSampleRateValue(s, s.sampRate)
       ELSE s

\* setRunning(running), the rest: waterfall state, m_running, refreshUi()
setRunning_end(s, running) ==
  LET s2 == IF s.m_waterfall THEN [s EXCEPT !.wf.running = running] ELSE s
  IN  refreshUi([s2 EXCEPT !.m_running = running])

\* setRunning(running)
setRunning(s, running) ==
  setRunning_end(setRunning_begin(s, running), running)

\* variant of the device check: the device in use is not looked at
bannedSelected_Ignored(s) == FALSE

\* the device check of onToggleScan(): the scan may not start
bannedSelected(s) ==
  s.m_bannedDevice # "" /\ getSelectedDevice(s).desc = s.m_bannedDevice

\* onToggleScan()
onToggleScan(s) ==
  LET s1 ==
        IF s.scanButton
        THEN IF bannedSelected(s)
             THEN [s EXCEPT !.scanButton = FALSE]
             ELSE Emit(IF s.m_waterfall THEN [s EXCEPT !.wf.partial = FALSE] ELSE s,
                       Plain("start"))
        ELSE Emit(s, Plain("stop"))
  IN  [s1 EXCEPT !.scanButtonText = IF s1.scanButton THEN "Stop" ELSE "Start scan"]

\* saveConfig(): the widgets' values go to the dialog configuration, the
\* device only when one is selected
saveConfig(s) ==
  [s EXCEPT !.m_dialogConfig =
     [device    |-> IF hasSelectedDevice(s) THEN getSelectedDevice(s).desc
                    ELSE s.m_dialogConfig.device,
      lnbFreq   |-> s.lnbDoubleSpinBox,
      rangeMin  |-> s.rangeStartSpin.value,
      rangeMax  |-> s.rangeEndSpin.value,
      fullRange |-> s.fullRangeCheck]]

\* variant of run(): the scan button keeps its state when exec() returns
run_end_KeepsButton(s) ==
  Emit([onToggleScan(saveConfig(s)) EXCEPT !.executing = FALSE], Plain("stop"))

\* run() after exec() returned: saveConfig(), the scan button is unchecked,
\* onToggleScan(), emit stop()
run_end(s) ==
  Emit([onToggleScan([saveConfig(s) EXCEPT !.scanButton = FALSE])
          EXCEPT !.executing = FALSE],
       Plain("stop"))

\* variant of getZoomRange: once a zoom window is stored its width is used
\* in place of the waterfall's span
getZoomRange_StoredSpan(s) ==
  ZoomRange(s.wf.centerFreq + s.wf.fftCenterFreq,
            IF s.m_currBw > 0 THEN s.m_currBw ELSE s.wf.spanFreq,
            getMinFreq(s), getMaxFreq(s), s.m_minBwForZoom, s.relBwSlider)

\* getZoomRange(min, max, noHop) on the dialog's state
getZoomRange(s) ==
  ZoomRange(s.wf.centerFreq + s.wf.fftCenterFreq, s.wf.spanFreq,
            getMinFreq(s), getMaxFreq(s), s.m_minBwForZoom, s.relBwSlider)

\* variant of onNewZoomLevel: detailChanged is raised whether scanning or not
onNewZoomLevel_AlwaysEmits(s) ==
  LET z  == getZoomRange(s)
      s1 == [s EXCEPT !.m_fixedFreqMode = z.noHop, !.m_currBw = z.max - z.min]
  IN  Emit(s1, Detail(z.min, z.max, s1.m_fixedFreqMode, s1))

\* onNewZoomLevel(float)
onNewZoomLevel(s) ==
  LET z  == getZoomRange(s)
      s1 == [s EXCEPT !.m_fixedFreqMode = z.noHop, !.m_currBw = z.max - z.min]
  IN  IF s1.m_running
      THEN Emit(s1, Detail(z.min, z.max, s1.m_fixedFreqMode, s1))
      ELSE s1

\* onNewFftCenterFreq(freq)
onNewFftCenterFreq(s, freq) ==
  IF ~s.m_running
  THEN s
  ELSE LET w == FollowWindow(freq + s.wf.centerFreq, s.m_currBw,
                             getMinFreq(s), getMaxFreq(s))
       IN  Emit(s, Detail(w.min, w.max, s.m_fixedFreqMode, s))

\* variant of SavedSpectrum::set: the samples are added to those stored
SavedSpectrum_set_Appending(saved, start, end, data) ==
  [start |-> start, end |-> end, data |-> saved.data \o data]

\* SavedSpectrum::set(start, end, data, size)
SavedSpectrum_set(saved, start, end, data) ==
  [start |-> start, end |-> end, data |-> data]

\* variant of feed: a frame with start >= end or without samples is dropped
feed_Validating(s, freqStart, freqEnd, data) ==
  IF freqStart >= freqEnd \/ data = <<>>
  THEN s
  ELSE [s EXCEPT !.m_freqStart = freqStart,
                 !.m_freqEnd = freqEnd,
                 !.m_saved = [start |-> freqStart, end |-> freqEnd, data |-> data],
                 !.exportButton = TRUE,
                 !.wf.partial = TRUE,
                 !.m_frames = s.m_frames + 1]

\* feed(freqStart, freqEnd, data, size)
feed(s, freqStart, freqEnd, data) ==
  [s EXCEPT !.m_freqStart = freqStart,
            !.m_freqEnd = freqEnd,
            !.m_saved = SavedSpectrum_set(s.m_saved, freqStart, freqEnd, data),
            !.exportButton = TRUE,
            !.wf.partial = TRUE,
            !.m_frames = s.m_frames + 1]

(* ------------------------------ actions ------------------------------- *)
\* inputs
ZoomSpans == 1 .. MaxSpan

FftOffsets == (0 - MaxOffset) .. MaxOffset

BwChoices == {4}

FrameFreqs == 0 .. MaxFrameFreq

Samples == {1, 2}

SampleSeqs == UNION {[1 .. n -> Samples] : n \in 0 .. MaxLen}

ScanRange(s) == <<s.rangeStartSpin.value, s.rangeEndSpin.value>>

Do(op, arg, s) ==
  /\ dlg' = s
  /\ last' = [op |-> op, arg |-> arg,
              rangeChanged |-> ScanRange(s) # ScanRange(dlg)]
  /\ UNCHANGED <<zin, zout, loop, exp>>

\* setGuiConfig(cfg): the waterfall is created once
SetGuiConfig ==
  /\ ~dlg.m_waterfall
  /\ Do("setGuiConfig", <<>>,
        adjustRanges([Begin(dlg) EXCEPT !.m_waterfall = TRUE]))

(* ----------------------------- band plans ---------------------------- *)
MaxBands == 2

\* the entries a band list of the catalogue may hold: a band with both
\* limits, a band without "min", and an entry that is not an object at all
ValidBand == [object |-> TRUE, fields |-> {"min", "max"}, min |-> 1, max |-> 2]
NoMinBand == [object |-> TRUE, fields |-> {"max"}, min |-> 0, max |-> 2]
NotABand  == [object |-> FALSE, fields |-> {}, min |-> 0, max |-> 0]

\* Suscan::Object::get(field, dfl): the field, or dfl when it is missing
get(obj, field, dfl) == IF field \in obj.fields THEN obj[field] ELSE dfl

\* reading a field of an entry that is not an object raises Suscan::Exception
Throws(obj) == ~obj.object

\* deserializeFrequencyBand(obj): every field is read with a default
deserializeFrequencyBand(obj) ==
  [min |-> get(obj, "min", 0), max |-> get(obj, "max", 0)]

\* variant: the loop over the entries ends at the first exception
pushBands_StopAtFailure(objs) ==
  LET bad == {i \in 1..Len(objs) : Throws(objs[i])}
      n   == IF bad = {} THEN Len(objs)
             ELSE (CHOOSE i \in bad : \A j \in bad : i <= j) - 1
  IN  [i \in 1..n |-> deserializeFrequencyBand(objs[i])]

\* the loop of deserializeFATs() over one band list: each entry is
\* deserialized and pushed inside try/catch, a throwing entry is passed over
pushBands(objs) ==
  LET ok(o) == ~Throws(o)
      kept  == SelectSeq(objs, ok)
  IN  [i \in 1..Len(kept) |-> deserializeFrequencyBand(kept[i])]

\* deserializeFATs(): tables are loaded once, while m_FATs is empty; the
\* combo is filled once, "(No bandplan)" with data -1 first
deserializeFATs(s, fats) ==
  LET loaded == IF Len(s.m_FATs) = 0
                THEN [ndx \in 1..Len(fats) |->
                        [name |-> fats[ndx].name,
                         bands |-> pushBands(fats[ndx].bands)]]
                ELSE s.m_FATs
      s1 == [s EXCEPT !.m_FATs = loaded]
  IN  IF Len(s.allocationCombo.data) = 0
      THEN [s1 EXCEPT !.allocationCombo =
              [data |-> <<-1>> \o [i \in 1..Len(loaded) |-> i - 1],
               currentIndex |-> 0]]
      ELSE s1

\* allocationCombo->currentData()
currentData(s) == s.allocationCombo.data[s.allocationCombo.currentIndex + 1]

\* Waterfall::removeFAT(name), pushFAT(fat), setFATsVisible(visible)
removeFAT(wf, name) == [wf EXCEPT !.FATs = {f \in @ : f.name # name}]
pushFAT(wf, fat) == [wf EXCEPT !.FATs = {f \in @ : f.name # fat.name} \cup {fat}]
setFATsVisible(wf, visible) == [wf EXCEPT !.FATsVisible = visible]

\* variant: the table in use stays in the renderer
removeCurrentFAT_Skipped(s) == s.wf

\* onBandPlanChanged(): the table in use, if any, leaves the renderer
removeCurrentFAT(s) ==
  IF s.m_currentFAT # "" THEN removeFAT(s.wf, s.m_currentFAT) ELSE s.wf

\* onBandPlanChanged(int)
onBandPlanChanged(s) ==
  LET val == currentData(s)
  IN  IF ~s.m_waterfall THEN s
      ELSE IF val >= 0
      THEN [s EXCEPT
              !.wf = pushFAT(setFATsVisible(removeCurrentFAT(s), TRUE),
                             s.m_FATs[val + 1]),
              !.m_currentFAT = s.m_FATs[val + 1].name]
      ELSE [s EXCEPT
              !.wf = setFATsVisible(removeCurrentFAT(s), FALSE),
              !.m_currentFAT = ""]

\* the tables of the Suscan singleton in the specifications that do not
\* vary them
InstalledFATs ==
  << [name |-> "ITU", bands |-> <<ValidBand>>] >>

\* run() up to exec(): device combo and band plans are filled
run_begin(s, fats) ==
  [deserializeFATs(populateDeviceCombo(s), fats) EXCEPT !.executing = TRUE]

\* run(): the device combo and the band plans are filled and the dialog
\* enters exec()
Run ==
  /\ ~dlg.executing
  /\ Do("run", <<>>, run_begin(Begin(dlg), InstalledFATs))

\* the user edits the start of the range
RangeStartEdited ==
  /\ dlg.executing /\ dlg.enabled.rangeSpins
  /\ \E v \in dlg.rangeStartSpin.minimum .. dlg.rangeStartSpin.maximum :
       /\ v # dlg.rangeStartSpin.value
       /\ Do("rangeStart", <<v>>, setRangeStartValue(Begin(dlg), v))

\* the user edits the end of the range
RangeEndEdited ==
  /\ dlg.executing /\ dlg.enabled.rangeSpins
  /\ \E v \in dlg.rangeEndSpin.minimum .. dlg.rangeEndSpin.maximum :
       /\ v # dlg.rangeEndSpin.value
       /\ Do("rangeEnd", <<v>>, setRangeEndValue(Begin(dlg), v))

\* the user toggles the full-range check box
FullRangeToggled ==
  /\ dlg.executing /\ dlg.enabled.fullRangeCheck
  /\ Do("fullRange", <<>>,
        onFullRangeChanged([Begin(dlg) EXCEPT !.fullRangeCheck = ~dlg.fullRangeCheck]))

\* the user picks a device in the combo
DeviceActivated ==
  /\ dlg.executing /\ dlg.enabled.deviceCombo
  /\ \E d \in dlg.m_deviceMap :
       Do("device", <<d>>, onDeviceChanged([Begin(dlg) EXCEPT !.deviceCombo = d]))

\* the user edits the LNB offset
LnbOffsetEdited ==
  /\ dlg.executing /\ dlg.enabled.lnbDoubleSpinBox
  /\ \E o \in LnbOffsets \ {dlg.lnbDoubleSpinBox} :
       Do("lnb", <<o>>, onLnbOffsetChanged([Begin(dlg) EXCEPT !.lnbDoubleSpinBox = o]))

\* the user clicks the scan button
ScanClicked ==
  /\ dlg.executing
  /\ Do("toggleScan", <<>>,
        onToggleScan([Begin(dlg) EXCEPT !.scanButton = ~dlg.scanButton]))

\* the application reports the scanner state
SetRunning ==
  /\ \E r \in BOOLEAN : Do("setRunning", <<r>>, setRunning(Begin(dlg), r))

\* the application reports the analyzer's sample rate
SetMinBwForZoom ==
  /\ \E bw \in BwChoices : Do("setMinBwForZoom", <<bw>>, setMinBwForZoom(Begin(dlg), bw))

\* the waterfall reports a new zoom level: its span and FFT centre moved
NewZoomLevel ==
  /\ dlg.m_waterfall
  /\ \E span \in ZoomSpans, off \in FftOffsets :
       Do("zoom", <<span, off>>,
          onNewZoomLevel([Begin(dlg) EXCEPT !.wf.spanFreq = span,
                                            !.wf.fftCenterFreq = off]))

\* the waterfall reports a new FFT centre (pan)
NewFftCenterFreq ==
  /\ dlg.m_waterfall
  /\ \E off \in FftOffsets :
       Do("pan", <<off>>,
          onNewFftCenterFreq([Begin(dlg) EXCEPT !.wf.fftCenterFreq = off], off))

\* the scanner delivers a frame
Feed ==
  /\ dlg.m_waterfall
  /\ dlg.m_frames < MaxFrames
  /\ \E fs \in FrameFreqs, fe \in FrameFreqs, data \in SampleSeqs :
       Do("feed", <<fs, fe, data>>, feed(Begin(dlg), fs, fe, data))

\* the scanner delivers one of two known frames
KnownFrames == {<<0, 1, <<1>>>>, <<1, 2, <<2, 1>>>>}

FeedFrame ==
  /\ dlg.m_waterfall
  /\ dlg.m_frames < MaxFrames
  /\ \E f \in KnownFrames :
       Do("feed", f, feed(Begin(dlg), f[1], f[2], f[3]))

(* --------------------------- specifications --------------------------- *)
RangeOps ==
  \/ RangeStartEdited
  \/ RangeEndEdited
  \/ FullRangeToggled
  \/ DeviceActivated
  \/ LnbOffsetEdited

\* range, zoom and pan
Next ==
  \/ SetGuiConfig
  \/ Run
  \/ RangeOps
  \/ SetRunning
  \/ SetMinBwForZoom
  \/ NewZoomLevel
  \/ NewFftCenterFreq

Spec == Init /\ [][Next]_vars

\* fed frames, between range edits and scan starts and stops
NextStitch ==
  \/ SetGuiConfig
  \/ Run
  \/ RangeStartEdited
  \/ RangeEndEdited
  \/ SetRunning
  \/ Feed

SpecStitch == Init /\ [][NextStitch]_vars

\* every range change and scan stop, with a few frames
NextSnapshot ==
  \/ SetGuiConfig
  \/ Run
  \/ RangeOps
  \/ ScanClicked
  \/ SetRunning
  \/ FeedFrame

SpecSnapshot == Init /\ [][NextSnapshot]_vars

\* the zoom window as a function of its inputs
ZoomInputs ==
  [fc : (0 - MaxOffset) .. MaxCenter,
   span : 1 .. MaxSpan + 1,
   rangeMin : 0 .. MaxFreq,
   rangeMax : 0 .. MaxFreq,
   minBwForZoom : {0} \cup BwChoices,
   relBwSlider : RelBwPercent]

InitZoom ==
  /\ dlg = InitDialog
  /\ last = NoOp
  /\ zin \in {i \in ZoomInputs : i.rangeMin <= i.rangeMax}
  /\ zout = <<>>
  /\ loop = InitLoop
  /\ exp = InitExport

ComputeZoom ==
  /\ zout = <<>>
  /\ zout' = ZoomRange(zin.fc, zin.span, zin.rangeMin, zin.rangeMax,
                       zin.minBwForZoom, zin.relBwSlider)
  /\ UNCHANGED <<dlg, last, zin, loop, exp>>

NextZoom == ComputeZoom

SpecZoom == InitZoom /\ [][NextZoom]_vars

\* invalidRange() as a function of the two spin values, in either order
MaxSpinValue == 9

RangeInputs == [start : 0 .. MaxSpinValue, end : 0 .. MaxSpinValue]

WithRange(in) ==
  [InitDialog EXCEPT
     !.rangeStartSpin = [value |-> in.start, minimum |-> 0, maximum |-> MaxSpinValue],
     !.rangeEndSpin   = [value |-> in.end, minimum |-> 0, maximum |-> MaxSpinValue]]

InitInvalid ==
  /\ dlg = InitDialog
  /\ last = NoOp
  /\ zin \in RangeInputs
  /\ zout = <<>>
  /\ loop = InitLoop
  /\ exp = InitExport

EvalInvalidRange ==
  /\ zout = <<>>
  /\ zout' = [invalid |-> invalidRange(WithRange(zin))]
  /\ UNCHANGED <<dlg, last, zin, loop, exp>>

NextInvalid == EvalInvalidRange

SpecInvalid == InitInvalid /\ [][NextInvalid]_vars

\* the zoom window and the pan window for the same centre, span and range
ComputeBoth ==
  /\ zout = <<>>
  /\ zout' = [zoom   |-> ZoomRange(zin.fc, zin.span, zin.rangeMin, zin.rangeMax,
                                   zin.minBwForZoom, zin.relBwSlider),
              follow |-> FollowWindow(zin.fc, zin.span, zin.rangeMin, zin.rangeMax)]
  /\ UNCHANGED <<dlg, last, zin, loop, exp>>

NextFollow == ComputeBoth

SpecFollow == InitZoom /\ [][NextFollow]_vars

\* what getZoomRange reads: waterfall centre and span, the range spin
\* boxes, m_minBwForZoom and the relative-bandwidth slider
ZoomInputsOf(s) ==
  [fc |-> s.wf.centerFreq + s.wf.fftCenterFreq,
   span |-> s.wf.spanFreq,
   rangeMin |-> getMinFreq(s),
   rangeMax |-> getMaxFreq(s),
   minBwForZoom |-> s.m_minBwForZoom,
   relBwSlider |-> s.relBwSlider]

\* a call getZoomRange(min, max, noHop) with local variables for its
\* results: the method is const, the object after the call is the object
\* before it
CallGetZoomRange(s) ==
  LET z == getZoomRange(s)
  IN  [self |-> s, min |-> z.min, max |-> z.max, noHop |-> z.noHop]

EvalZoomRange ==
  /\ dlg.m_waterfall
  /\ last.op # "getZoomRange"
  /\ LET c == CallGetZoomRange(dlg)
     IN  /\ dlg' = c.self
         /\ last' = [op |-> "getZoomRange",
                     arg |-> <<ZoomInputsOf(dlg), <<c.min, c.max, c.noHop>>>>,
                     rangeChanged |-> FALSE]
  /\ UNCHANGED <<zin, zout, loop, exp>>

\* zoom-window evaluations between range edits, scans, zooms and feeds
NextPure ==
  \/ SetGuiConfig
  \/ Run
  \/ RangeEndEdited
  \/ SetRunning
  \/ SetMinBwForZoom
  \/ NewZoomLevel
  \/ FeedFrame
  \/ EvalZoomRange

SpecPure == Init /\ [][NextPure]_vars

(* ------------------------- the GUI event loop ------------------------- *)
\* The handlers above run on the GUI thread.  A frame of the scanner is
\* posted to that thread and feed() runs when the thread next dispatches
\* events: in its event loop, or in the event loop of a modal box a
\* handler opened.  Below, the handlers that change the range or stop the
\* scan are taken statement by statement.

\* longest queue of posted frames
MaxQueue == 1

\* variant: adjustRanges() lets the event loop run between its two setValue
EventLoopPoints_InSwap == {"idle", "msgbox", "swapHalf"}

\* where the GUI thread dispatches posted events: the event loop of exec()
\* and the modal QMessageBox of onToggleScan()
EventLoopPoints == {"idle", "msgbox"}

\* where a range change or a scan stop is under way
UpdatePoints == {"adjustRanges", "swapHalf", "adjustWaterfall", "stopping"}

LoopFrames == {<<0, 1, <<1>>>>}

\* setBannedDevice(desc)
setBannedDevice(s, desc) == [s EXCEPT !.m_bannedDevice = desc]

\* the dialog once setGuiConfig(), setBannedDevice("devA") and run() have
\* happened
DialogShown ==
  run_begin(
    setBannedDevice(adjustRanges([InitDialog EXCEPT !.m_waterfall = TRUE]), "devA"),
    InstalledFATs)

InitLoopSpec ==
  /\ dlg = DialogShown
  /\ last = NoOp
  /\ zin = <<>>
  /\ zout = <<>>
  /\ loop = InitLoop
  /\ exp = InitExport

Step(op, arg, s, pc) ==
  /\ dlg' = s
  /\ last' = [op |-> op, arg |-> arg,
              rangeChanged |-> ScanRange(s) # ScanRange(dlg)]
  /\ loop' = [loop EXCEPT !.pc = pc]
  /\ UNCHANGED <<zin, zout, exp>>

\* the acquisition context posts a frame, whatever the GUI thread is doing
PostFrame ==
  /\ Len(loop.queue) < MaxQueue
  /\ \E f \in LoopFrames :
       loop' = [loop EXCEPT !.queue = Append(@, [frame |-> f, postedAt |-> loop.pc])]
  /\ UNCHANGED <<dlg, last, zin, zout, exp>>

\* the GUI thread dispatches a posted frame: feed() runs
DispatchFeed ==
  /\ loop.pc \in EventLoopPoints
  /\ loop.queue # <<>>
  /\ dlg.m_frames < MaxFrames
  /\ LET e == Head(loop.queue)
     IN  /\ dlg' = feed(Begin(dlg), e.frame[1], e.frame[2], e.frame[3])
         /\ last' = [op |-> "feed", arg |-> e.frame, rangeChanged |-> FALSE]
         /\ loop' = [loop EXCEPT !.queue = Tail(@), !.fedAt = loop.pc,
                                 !.fedPostedAt = e.postedAt]
  /\ UNCHANGED <<zin, zout, exp>>

\* the user edits a range spin box: valueChanged enters adjustRanges()
EditRangeStart ==
  /\ loop.pc = "idle" /\ dlg.enabled.rangeSpins
  /\ \E v \in dlg.rangeStartSpin.minimum .. dlg.rangeStartSpin.maximum :
       /\ v # dlg.rangeStartSpin.value
       /\ Step("rangeStart", <<v>>,
               [Begin(dlg) EXCEPT !.rangeStartSpin.value = v], "adjustRanges")

EditRangeEnd ==
  /\ loop.pc = "idle" /\ dlg.enabled.rangeSpins
  /\ \E v \in dlg.rangeEndSpin.minimum .. dlg.rangeEndSpin.maximum :
       /\ v # dlg.rangeEndSpin.value
       /\ Step("rangeEnd", <<v>>,
               [Begin(dlg) EXCEPT !.rangeEndSpin.value = v], "adjustRanges")

\* adjustRanges(): the test for reversed bounds and the first setValue
AdjustRangesEnter ==
  /\ loop.pc = "adjustRanges"
  /\ IF dlg.rangeStartSpin.value > dlg.rangeEndSpin.value
     THEN /\ dlg' = setRangeStartValue(dlg, dlg.rangeEndSpin.value)
          /\ loop' = [loop EXCEPT !.pc = "swapHalf", !.val = dlg.rangeStartSpin.value]
     ELSE /\ dlg' = dlg
          /\ loop' = [loop EXCEPT !.pc = "adjustWaterfall"]
  /\ UNCHANGED <<last, zin, zout, exp>>

\* adjustRanges(): the second setValue of the swap
AdjustRangesSwapEnd ==
  /\ loop.pc = "swapHalf"
  /\ dlg' = setRangeEndValue(dlg, loop.val)
  /\ loop' = [loop EXCEPT !.pc = "adjustWaterfall", !.val = 0]
  /\ UNCHANGED <<last, zin, zout, exp>>

\* adjustRanges(): the waterfall part
AdjustRangesWaterfall ==
  /\ loop.pc = "adjustWaterfall"
  /\ dlg' = adjustWaterfall(dlg)
  /\ loop' = [loop EXCEPT !.pc = "idle"]
  /\ UNCHANGED <<last, zin, zout, exp>>

\* setRunning(true)
ScanStarted ==
  /\ loop.pc = "idle" /\ ~dlg.m_running
  /\ Step("setRunning", <<TRUE>>, setRunning(Begin(dlg), TRUE), "idle")

\* setRunning(false), first statement
ScanStopBegin ==
  /\ loop.pc = "idle" /\ dlg.m_running
  /\ Step("setRunning", <<FALSE>>, setRunning_begin(Begin(dlg), FALSE), "stopping")

\* setRunning(false), the rest
ScanStopEnd ==
  /\ loop.pc = "stopping"
  /\ dlg' = setRunning_end(dlg, FALSE)
  /\ loop' = [loop EXCEPT !.pc = "idle"]
  /\ UNCHANGED <<last, zin, zout, exp>>

\* the user clicks the scan button: onToggleScan() runs to its end, unless
\* it opens the message box about the banned device
ToggleScanClicked ==
  /\ loop.pc = "idle"
  /\ LET s == [Begin(dlg) EXCEPT !.scanButton = ~dlg.scanButton]
     IN  IF s.scanButton /\ bannedSelected(s)
         THEN Step("toggleScan", <<>>, s, "msgbox")
         ELSE Step("toggleScan", <<>>, onToggleScan(s), "idle")

\* the message box is closed: onToggleScan() goes on
MessageBoxClosed ==
  /\ loop.pc = "msgbox"
  /\ dlg' = onToggleScan(dlg)
  /\ loop' = [loop EXCEPT !.pc = "idle"]
  /\ UNCHANGED <<last, zin, zout, exp>>

NextLoop ==
  \/ PostFrame
  \/ DispatchFeed
  \/ EditRangeStart
  \/ EditRangeEnd
  \/ AdjustRangesEnter
  \/ AdjustRangesSwapEnd
  \/ AdjustRangesWaterfall
  \/ ScanStarted
  \/ ScanStopBegin
  \/ ScanStopEnd
  \/ ToggleScanClicked
  \/ MessageBoxClosed

SpecLoop == InitLoopSpec /\ [][NextLoop]_vars

(* ------------------------------ export -------------------------------- *)
\* std::numeric_limits<float>::digits10, the precision set on the stream
Digits10 == 6

\* most failed attempts of one export before the user picks a path that
\* opens, or cancels
MaxTries == 2

RECURSIVE NumDigits(_)
NumDigits(a) == IF a < 10 THEN 1 ELSE 1 + NumDigits(a \div 10)

\* variant of the sample output: every digit of the sample is written
PrintFloat_AllDigits(v) == v

\* of << p under setprecision(digits10): the number the written text
\* denotes.  Samples are whole numbers here; one of more than Digits10
\* digits is written in exponent form, rounded to Digits10 digits.
PrintFloat(v) ==
  LET a == Abs(v)
  IN  IF a < 10 ^ Digits10
      THEN v
      ELSE LET unit == 10 ^ (NumDigits(a) - Digits10)
               q    == a \div unit
               r    == a % unit
               up   == (2 * r > unit) \/ (2 * r = unit /\ q % 2 = 1)
               m    == (IF up THEN q + 1 ELSE q) * unit
           IN  IF v < 0 THEN 0 - m ELSE m

\* for (auto p : this->data) of << p << " "
RECURSIVE PsdTokens(_)
PsdTokens(data) ==
  IF data = <<>>
  THEN <<>>
  ELSE <<PrintFloat(Head(data))>> \o PsdTokens(Tail(data))

\* one line of the written file: text, the numbers written after it, text
Line(pre, nums, post) == [pre |-> pre, nums |-> nums, post |-> post]

\* the text SavedSpectrum::exportToFile writes
FileText(saved) ==
  << Line("%", <<>>, ""),
     Line("% Panoramic Spectrum file generated by SigDigger", <<>>, ""),
     Line("%", <<>>, ""),
     Line("", <<>>, ""),
     Line("freqMin = ", <<saved.start>>, ";"),
     Line("freqMax = ", <<saved.end>>, ";"),
     Line("PSD = [ ", PsdTokens(saved.data), "];") >>

\* variant of exportToFile: nothing is written for a spectrum without samples
exportToFile_RefusingEmpty(saved, files, path) ==
  IF path \notin Writable \/ saved.data = <<>>
  THEN [ok |-> FALSE, files |-> files]
  ELSE [ok |-> TRUE, files |-> [files EXCEPT ![path] = FileText(saved)]]

\* SavedSpectrum::exportToFile(path)
exportToFile(saved, files, path) ==
  IF path \notin Writable
  THEN [ok |-> FALSE, files |-> files]
  ELSE [ok |-> TRUE, files |-> [files EXCEPT ![path] = FileText(saved)]]

\* variant of onExport: a failed export ends the prompt loop
onExport_accepted_GivesUp(e, saved, path) ==
  LET r == exportToFile(saved, e.files, path)
  IN  IF ~r.ok
      THEN [e EXCEPT !.pc = "idle", !.result = "failed"]
      ELSE [e EXCEPT !.pc = "idle", !.result = "ok", !.files = r.files]

\* onExport(), the file dialog returned a path: the warning box when the
\* file did not open, done otherwise
onExport_accepted(e, saved, path) ==
  LET r == exportToFile(saved, e.files, path)
  IN  IF ~r.ok
      THEN [e EXCEPT !.pc = "warning", !.result = "failed"]
      ELSE [e EXCEPT !.pc = "idle", !.result = "ok", !.files = r.files]

\* frames of the scanner: none, three and two samples, one sample of seven
\* digits
ExportFrames ==
  { <<0, 1, <<>>>>,
    <<1000000, 2000000, <<1, 2, 3>>>>,
    <<0, 1, <<2, 1>>>>,
    <<1, 0, <<1234567, 0 - 1>>>> }

\* the scanner delivers a frame, also while a box of onExport is open
FeedSamples ==
  /\ dlg.m_waterfall
  /\ dlg.m_frames < MaxFrames
  /\ \E f \in ExportFrames :
       Do("feed", f, feed(Begin(dlg), f[1], f[2], f[3]))

ExportStep(op, arg, e) ==
  /\ exp' = e
  /\ last' = [op |-> op, arg |-> arg, rangeChanged |-> FALSE]
  /\ UNCHANGED <<dlg, zin, zout, loop>>

\* the user clicks the export button: onExport() opens its file dialog
ExportClicked ==
  /\ dlg.executing /\ dlg.exportButton
  /\ exp.pc = "idle"
  /\ ExportStep("exportClicked", <<>>,
                [exp EXCEPT !.pc = "fileDialog", !.result = "none", !.tries = 0])

\* dialog.exec() returns a path
FileDialogAccepted ==
  /\ exp.pc = "fileDialog"
  /\ \E path \in Paths :
       /\ path \in Writable \/ exp.tries < MaxTries
       /\ ExportStep("export", <<path>>, onExport_accepted(exp, dlg.m_saved, path))

\* dialog.exec() returns without one
FileDialogRejected ==
  /\ exp.pc = "fileDialog"
  /\ ExportStep("exportCancelled", <<>>,
                [exp EXCEPT !.pc = "idle", !.result = "cancelled"])

\* the warning box is closed: the loop of onExport() prompts again
WarningClosed ==
  /\ exp.pc = "warning"
  /\ ExportStep("warningClosed", <<>>,
                [exp EXCEPT !.pc = "fileDialog", !.tries = exp.tries + 1])

NextExport ==
  \/ SetGuiConfig
  \/ Run
  \/ FeedSamples
  \/ ExportClicked
  \/ FileDialogAccepted
  \/ FileDialogRejected
  \/ WarningClosed

SpecExport == Init /\ [][NextExport]_vars

(* --------------------------- step interval ---------------------------- *)
\* largest round-trip time in the rtt spin box before a device is selected
MaxRtt == 16

\* driver names: the four of the table, an unknown one and none
Drivers == {"rtlsdr", "airspy", "hackrf", "uhd", "soapy", ""}

RttInputs == [driver : Drivers, rtt : 0 .. MaxRtt]

InitRtt ==
  /\ dlg = InitDialog
  /\ last = NoOp
  /\ zin \in RttInputs
  /\ zout = <<>>
  /\ loop = InitLoop
  /\ exp = InitExport

\* a device of driver zin.driver is selected while the rtt spin box holds
\* zin.rtt
SelectDriver ==
  /\ zout = <<>>
  /\ LET dev == [desc |-> "dev", driver |-> zin.driver, minFreq |-> 0, maxFreq |-> 3]
     IN  zout' = [preferred |-> preferredRttMs(dev),
                  rtt |-> onDeviceChanged_selected(
                            [InitDialog EXCEPT !.rttSpin = zin.rtt], dev).rttSpin]
  /\ UNCHANGED <<dlg, last, zin, loop, exp>>

NextRtt == SelectDriver

SpecRtt == InitRtt /\ [][NextRtt]_vars

(* ---------------------------- gain store ------------------------------ *)
\* Names are strings; a string is kept as the sequence of its pieces, a
\* piece being a word without '.' or the '.' itself, so that appending
\* strings is appending sequences.

\* largest gain value set
MaxGain == 1

\* "gain." + dev + "." + name
GainKey(dev, name) == <<"gain", ".">> \o dev \o <<".">> \o name

\* PanoramicDialogConfig::hasGain(dev, name)
hasGain(s, dev, name) == GainKey(dev, name) \in DOMAIN s.gains

\* PanoramicDialogConfig::getGain(dev, name)
getGain(s, dev, name) ==
  IF GainKey(dev, name) \notin DOMAIN s.gains
  THEN 0
  ELSE s.gains[GainKey(dev, name)]

\* PanoramicDialogConfig::setGain(dev, name, val)
setGain(s, dev, name, val) ==
  [s EXCEPT !.gains = (GainKey(dev, name) :> val) @@ s.gains]

\* onGainChanged(name, val)
onGainChanged(s, name, val) ==
  LET s1 == IF hasSelectedDevice(s)
            THEN setGain(s, <<getSelectedDevice(s).driver>>, name, val)
            ELSE s
  IN  Emit(s1, Plain("gainChanged"))

DevNames == {<<"a">>, <<"a", ".", "b">>}

StageNames == {<<"c">>, <<"b", ".", "c">>}

GainValues == 0 .. MaxGain

\* the sets made so far are kept in zin: pair -> value of its latest set
Remember(dev, name, val) == (<<dev, name>> :> val) @@ zin

SetGain ==
  /\ \E dev \in DevNames, name \in StageNames, val \in GainValues :
       /\ dlg' = setGain(Begin(dlg), dev, name, val)
       /\ last' = [op |-> "setGain", arg |-> <<dev, name, val>>,
                   rangeChanged |-> FALSE]
       /\ zin' = Remember(dev, name, val)
  /\ UNCHANGED <<zout, loop, exp>>

\* a gain control of the selected device is moved
GainChanged ==
  /\ dlg.executing /\ hasSelectedDevice(dlg)
  /\ \E name \in StageNames, val \in GainValues :
       LET dev == <<getSelectedDevice(dlg).driver>>
       IN  /\ dlg' = onGainChanged(Begin(dlg), name, val)
           /\ last' = [op |-> "setGain", arg |-> <<dev, name, val>>,
                       rangeChanged |-> FALSE]
           /\ zin' = Remember(dev, name, val)
  /\ UNCHANGED <<zout, loop, exp>>

QueryGain ==
  /\ \E dev \in DevNames \cup {<<"rtlsdr">>}, name \in StageNames :
       /\ zout' = [has |-> hasGain(dlg, dev, name), get |-> getGain(dlg, dev, name)]
       /\ last' = [op |-> "getGain", arg |-> <<dev, name>>, rangeChanged |-> FALSE]
  /\ UNCHANGED <<dlg, zin, loop, exp>>

NextGain ==
  \/ Run
  \/ SetGain
  \/ GainChanged
  \/ QueryGain

SpecGain == Init /\ [][NextGain]_vars

(* ------------------------------- claims ------------------------------- *)
RangeOpNames == {"rangeStart", "rangeEnd", "fullRange", "device", "lnb"}

Details(s) ==
  {i \in DOMAIN s.emitted : s.emitted[i].sig = "detailChanged"}

\* C1: every detailChanged(min, max, fixedMode) emitted by a zoom or a pan
\* lies inside the scan range in force when it was emitted:
\* rangeMin <= min and max <= rangeMax.
C1_RetuneInsideScanRange ==
  \A i \in Details(dlg) :
    /\ dlg.emitted[i].rangeMin <= dlg.emitted[i].min
    /\ dlg.emitted[i].max <= dlg.emitted[i].rangeMax

\* C2: for every centre, span > 0 and scan range with min <= max the window
\* returned by getZoomRange satisfies windowMin >= rangeMin and
\* windowMax <= rangeMax.
C2_WindowInsideScanRange ==
  zout # <<>> => zout.min >= zin.rangeMin /\ zout.max <= zin.rangeMax

\* C3 as stated: whenever rangeMax - rangeMin >= span, the window returned
\* by getZoomRange is exactly span wide, for even and odd span alike.
C3_WidthIsSpan ==
  (zout # <<>> /\ zin.rangeMax - zin.rangeMin >= zin.span)
    => zout.max - zout.min = zin.span

\* C3 amended: whenever rangeMax - rangeMin >= span, the window is exactly
\* span wide when span is even or a border was hit, and span - 1 wide when
\* span is odd and no border was hit (centre -/+ span/2 in integers).
C3_WidthIsSpanUpToRounding ==
  (zout # <<>> /\ zin.rangeMax - zin.rangeMin >= zin.span)
    => zout.max - zout.min =
         IF zin.span % 2 = 1 /\ ~zout.leftBorder /\ ~zout.rightBorder
         THEN zin.span - 1
         ELSE zin.span

C3_Witness ==
  /\ zout # <<>>
  /\ zin.rangeMax - zin.rangeMin >= zin.span
  /\ zin.span % 2 = 1
  /\ zout.leftBorder /\ ~zout.rightBorder
  /\ zout.max - zout.min = zin.span

InvalidFrame(arg) == arg[1] >= arg[2] \/ arg[3] = <<>>

\* C4 as stated: a feed with start >= end or without samples is rejected and
\* leaves the stored snapshot and the frame counter unchanged.
C4_InvalidFrameRejected ==
  [][(last'.op = "feed" /\ InvalidFrame(last'.arg))
       => (dlg'.m_saved = dlg.m_saved /\ dlg'.m_frames = dlg.m_frames)]_vars

\* C4 amended: feed does not validate its frame: a frame with start >= end
\* or without samples is stored like any other, it replaces the snapshot and
\* the frame counter goes up by one.
C4_InvalidFrameStored ==
  [][(last'.op = "feed" /\ InvalidFrame(last'.arg))
       => /\ dlg'.m_saved = [start |-> last'.arg[1], end |-> last'.arg[2],
                             data |-> last'.arg[3]]
          /\ dlg'.m_frames = dlg.m_frames + 1]_vars

C4_Witness ==
  /\ last.op = "feed"
  /\ last.arg[1] > last.arg[2]
  /\ dlg.m_saved.start = last.arg[1]
  /\ dlg.m_saved.end = last.arg[2]
  /\ dlg.m_frames = 2

ScanStopped ==
  \/ last.op = "setRunning" /\ last.arg = <<FALSE>>
  \/ last.op = "toggleScan" /\ \E i \in DOMAIN dlg.emitted : dlg.emitted[i].sig = "stop"

\* C5 as stated: after a successful scan-range change and after a scan stop
\* the stitched snapshot is empty.
C5_SnapshotDroppedOnChange ==
  ((last.op \in RangeOpNames /\ last.rangeChanged) \/ ScanStopped)
    => dlg.m_saved.data = <<>>

\* C5 amended: a scan-range change or a scan stop leaves the stitched
\* snapshot as it was (only the waterfall's partial data is dropped): the
\* snapshot changes in feed alone, so a later export writes the last frame fed.
C5_SnapshotKeptOnChange ==
  [][last'.op # "feed" => dlg'.m_saved = dlg.m_saved]_vars

C5_Witness ==
  /\ last.op \in RangeOpNames
  /\ last.rangeChanged
  /\ dlg.m_saved.data # <<>>
  /\ ~dlg.wf.partial

\* C6 as stated: after a successful scan-range change the fixed-mode flag
\* is reset to false.
C6_FixedModeResetOnChange ==
  (last.op \in RangeOpNames /\ last.rangeChanged) => ~dlg.m_fixedFreqMode

\* C6 amended: a scan-range change leaves the fixed-mode flag as it was; the
\* flag changes only when a zoom (onNewZoomLevel) recomputes it, and a pan
\* reports the stored flag.
C6_FixedModeKeptOnChange ==
  [][last'.op # "zoom" => dlg'.m_fixedFreqMode = dlg.m_fixedFreqMode]_vars

C6_Witness ==
  /\ last.op \in RangeOpNames
  /\ last.rangeChanged
  /\ dlg.m_fixedFreqMode

\* C7: the stored range satisfies min <= max in every state, and an edit of
\* one bound to a leaves the pair {a, other bound} stored in order, swapped
\* when a arrived on the wrong side.
C7_RangeOrdered ==
  /\ [](dlg.rangeStartSpin.value <= dlg.rangeEndSpin.value)
  /\ [][/\ last'.op = "rangeStart" =>
             ScanRange(dlg') = <<Min2(last'.arg[1], dlg.rangeEndSpin.value),
                                 Max2(last'.arg[1], dlg.rangeEndSpin.value)>>
        /\ last'.op = "rangeEnd" =>
             ScanRange(dlg') = <<Min2(last'.arg[1], dlg.rangeStartSpin.value),
                                 Max2(last'.arg[1], dlg.rangeStartSpin.value)>>]_vars

C7_Witness ==
  /\ last.op = "rangeStart"
  /\ dlg.rangeEndSpin.value = last.arg[1]
  /\ dlg.rangeStartSpin.value < last.arg[1]

\* C8: after every feed(start, end, samples) the snapshot is exactly that
\* frame: same start, same end, the same samples in the same order, and
\* nothing of an earlier frame.
C8_SnapshotIsLastFrame ==
  last.op = "feed"
    => dlg.m_saved = [start |-> last.arg[1], end |-> last.arg[2],
                      data |-> last.arg[3]]

C8_Witness ==
  /\ last.op = "feed"
  /\ dlg.m_frames = 2
  /\ Len(last.arg[3]) = 1
  /\ dlg.m_saved.data = last.arg[3]

C10_OneDetailPerRecompute ==
  /\ last.op = "zoom" =>
       LET z == getZoomRange(dlg)
       IN  dlg.emitted = IF dlg.m_running
                         THEN <<Detail(z.min, z.max, z.noHop, dlg)>>
                         ELSE <<>>
  /\ last.op = "pan" =>
       LET w == FollowWindow(last.arg[1] + dlg.wf.centerFreq, dlg.m_currBw,
                             getMinFreq(dlg), getMaxFreq(dlg))
       IN  dlg.emitted = IF dlg.m_running
                         THEN <<Detail(w.min, w.max, dlg.m_fixedFreqMode, dlg)>>
                         ELSE <<>>

C10_Witness ==
  /\ last.op = "pan"
  /\ dlg.m_running
  /\ Len(dlg.emitted) = 1
  /\ dlg.emitted[1].max - dlg.emitted[1].min = dlg.m_currBw
  /\ dlg.m_currBw > 0

\* C11 as stated: an export of a snapshot without samples signals
\* NothingToExport: it does not report success.
C11_EmptyExportRefused ==
  [][(last'.op = "export" /\ dlg.m_saved.data = <<>>)
       => exp'.result # "ok"]_vars

\* C11 amended: an export of a snapshot without samples to a path that
\* opens succeeds like any other: the file holds the header, freqMin,
\* freqMax and a PSD line without values.  (Only the export button, enabled
\* by the first feed, keeps the user from exporting before a frame arrived.)
C11_EmptyExportWritesEmptyList ==
  [][(last'.op = "export" /\ dlg.m_saved.data = <<>>
        /\ last'.arg[1] \in Writable)
       => /\ exp'.result = "ok"
          /\ exp'.pc = "idle"
          /\ Len(exp'.files[last'.arg[1]]) = 7
          /\ exp'.files[last'.arg[1]][5].nums = <<dlg.m_saved.start>>
          /\ exp'.files[last'.arg[1]][6].nums = <<dlg.m_saved.end>>
          /\ exp'.files[last'.arg[1]][7] = Line("PSD = [ ", <<>>, "];")]_vars

C11_Witness ==
  /\ last.op = "export"
  /\ exp.result = "ok"
  /\ dlg.m_saved.data = <<>>
  /\ dlg.m_frames > 0
  /\ exp.files[last.arg[1]][7].nums = <<>>

\* C12: when the chosen path cannot be opened the export fails, the
\* snapshot and the files stay as they were and onExport prompts again; its
\* prompt loop ends only with a successful export or a cancelled dialog.
C12_FailedExportPromptsAgain ==
  [][/\ (last'.op = "export" /\ last'.arg[1] \notin Writable)
          => /\ exp'.result = "failed"
             /\ exp'.pc = "warning"
             /\ exp'.files = exp.files
             /\ dlg'.m_saved = dlg.m_saved
     /\ (exp.pc = "warning" /\ exp'.pc # "warning") => exp'.pc = "fileDialog"
     /\ (exp.pc # "idle" /\ exp'.pc = "idle")
          => exp'.result \in {"ok", "cancelled"}]_vars

C12_Witness ==
  /\ last.op = "export"
  /\ exp.pc = "idle"
  /\ exp.result = "ok"
  /\ exp.tries = MaxTries
  /\ exp.files["readonly.m"] = NoFile
  /\ exp.files["spectrum.m"] = FileText(dlg.m_saved)

\* C13 as stated: after a feed a successful export writes the header, a
\* blank line, freqMin = start, freqMax = end and a PSD line listing exactly
\* the fed samples, all of them, in the order fed.
C13_FileListsSamplesExactly ==
  [][(last'.op = "export" /\ exp'.result = "ok")
       => exp'.files[last'.arg[1]] =
            << Line("%", <<>>, ""),
               Line("% Panoramic Spectrum file generated by SigDigger", <<>>, ""),
               Line("%", <<>>, ""),
               Line("", <<>>, ""),
               Line("freqMin = ", <<dlg.m_saved.start>>, ";"),
               Line("freqMax = ", <<dlg.m_saved.end>>, ";"),
               Line("PSD = [ ", dlg.m_saved.data, "];") >>]_vars

\* C13 amended: the file is as stated, but each sample is written with 6
\* significant digits: the PSD line lists one value per fed sample in the
\* order fed, equal to the sample when it has at most 6 digits, and
\* otherwise the multiple of 10^(digits - 6) nearest to it.
C13_FileListsSamplesAtPrecision ==
  [][(last'.op = "export" /\ exp'.result = "ok")
       => LET file == exp'.files[last'.arg[1]]
              data == dlg.m_saved.data
          IN  /\ Len(file) = 7
              /\ file[1] = Line("%", <<>>, "")
              /\ file[2] = Line("% Panoramic Spectrum file generated by SigDigger", <<>>, "")
              /\ file[3] = Line("%", <<>>, "")
              /\ file[4] = Line("", <<>>, "")
              /\ file[5] = Line("freqMin = ", <<dlg.m_saved.start>>, ";")
              /\ file[6] = Line("freqMax = ", <<dlg.m_saved.end>>, ";")
              /\ file[7].pre = "PSD = [ " /\ file[7].post = "];"
              /\ Len(file[7].nums) = Len(data)
              /\ \A i \in 1 .. Len(data) :
                   IF Abs(data[i]) < 1000000
                   THEN file[7].nums[i] = data[i]
                   ELSE LET unit == 10 ^ (NumDigits(Abs(data[i])) - 6)
                        IN  /\ file[7].nums[i] % unit = 0
                            /\ 2 * Abs(file[7].nums[i] - data[i]) <= unit]_vars

C13_Witness ==
  /\ last.op = "export"
  /\ exp.result = "ok"
  /\ dlg.m_saved = [start |-> 1000000, end |-> 2000000, data |-> <<1, 2, 3>>]
  /\ exp.files[last.arg[1]][5] = Line("freqMin = ", <<1000000>>, ";")
  /\ exp.files[last.arg[1]][6] = Line("freqMax = ", <<2000000>>, ";")
  /\ exp.files[last.arg[1]][7] = Line("PSD = [ ", <<1, 2, 3>>, "];")

\* C14 as stated: every feed increments the frame counter by exactly one,
\* and over feeds, range changes, scan starts and scan stops the counter
\* never decreases.
C14_CounterNeverDecreases ==
  [][/\ last'.op = "feed" => dlg'.m_frames = dlg.m_frames + 1
     /\ dlg'.m_frames >= dlg.m_frames]_vars

\* C14 amended: every feed increments the frame counter by exactly one; a
\* scan start (setRunning(true) while not running) sets it back to 0; a
\* range change, a scan stop and a repeated setRunning(true) leave it as it
\* was.  The counter is monotonic within one scan only.
C14_CounterRestartsWithScan ==
  [][dlg'.m_frames =
       IF last'.op = "feed"
       THEN dlg.m_frames + 1
       ELSE IF last'.op = "setRunning" /\ last'.arg = <<TRUE>> /\ ~dlg.m_running
            THEN 0
            ELSE dlg.m_frames]_vars

C14_Witness ==
  /\ last.op = "setRunning"
  /\ last.arg = <<TRUE>>
  /\ dlg.m_running
  /\ dlg.m_frames = 0
  /\ dlg.m_saved.data # <<>>
  /\ dlg.exportButton

\* C15: invalidRange() is true if and only if the two stored bounds are
\* less than 1 Hz apart, whichever of them is the larger.
C15_InvalidIffCloserThanOne ==
  zout # <<>>
    => (zout.invalid <=> (zin.end - zin.start < 1 /\ zin.start - zin.end < 1))

C15_Witness ==
  /\ zout # <<>>
  /\ ~zout.invalid
  /\ zin.end < zin.start

\* the range is derived anew for the selected device and the LNB offset
RangeDerived ==
  /\ hasSelectedDevice(dlg')
  /\ \/ last'.op \in {"device", "lnb"}
     \/ last'.op = "fullRange" /\ dlg'.fullRangeCheck

\* C16: after the range is derived for device d and LNB offset o, the scan
\* range is exactly [d.minFreq + o, d.maxFreq + o] when the full-range flag
\* is set or the user range, restricted to these limits, is invalid (a
\* degenerate range is never kept); otherwise it is the user range
\* restricted to [d.minFreq + o, d.maxFreq + o].
C16_FullRangeFallback ==
  [][RangeDerived =>
       LET d  == getSelectedDevice(dlg')
           lo == d.minFreq + dlg'.lnbDoubleSpinBox
           hi == d.maxFreq + dlg'.lnbDoubleSpinBox
           a  == Max2(lo, Min2(dlg.rangeStartSpin.value, hi))
           b  == Max2(lo, Min2(dlg.rangeEndSpin.value, hi))
       IN  ScanRange(dlg') =
             IF dlg'.fullRangeCheck \/ b - a < 1 THEN <<lo, hi>> ELSE <<a, b>>]_vars

C16_Witness ==
  /\ last.op = "device"
  /\ last.rangeChanged
  /\ ~dlg.fullRangeCheck
  /\ dlg.deviceCombo = "devB"
  /\ ScanRange(dlg) = <<1 + dlg.lnbDoubleSpinBox, 4 + dlg.lnbDoubleSpinBox>>

\* C17: the fixed-mode flag returned by getZoomRange is true if and only if
\* (windowMax - windowMin) <= minBwForZoom * relBw for the window it
\* returns, after clamping and shifting, not for the requested span.
C17_FixedModeOnFinalWindow ==
  zout # <<>>
    => (zout.noHop <=>
          (zout.max - zout.min) * 100 <= zin.minBwForZoom * zin.relBwSlider)

C17_Witness ==
  /\ zout # <<>>
  /\ zout.noHop
  /\ zout.max - zout.min < zin.span
  /\ zin.span * 100 > zin.minBwForZoom * zin.relBwSlider

\* C18: when the requested window reaches or exceeds both ends of the scan
\* range, getZoomRange returns exactly the scan range, without any shift.
C18_BothClampedIsFullRange ==
  (/\ zout # <<>>
   /\ zin.fc - CDiv2(zin.span) <= zin.rangeMin
   /\ zin.fc + CDiv2(zin.span) >= zin.rangeMax)
    => (zout.min = zin.rangeMin /\ zout.max = zin.rangeMax)

C18_Witness ==
  /\ zout # <<>>
  /\ zout.leftBorder /\ zout.rightBorder
  /\ zin.rangeMax - zin.rangeMin < zin.span
  /\ zin.rangeMin < zin.rangeMax
  /\ zout.min = zin.rangeMin /\ zout.max = zin.rangeMax

\* C19: for every centre, span and scan range the window of the pan handler
\* (onNewFftCenterFreq) equals the window getZoomRange returns for the same
\* centre and span.
C19_FollowEqualsZoom ==
  zout # <<>>
    => (zout.follow.min = zout.zoom.min /\ zout.follow.max = zout.zoom.max)

C19_Witness ==
  /\ zout # <<>>
  /\ zout.zoom.leftBorder /\ ~zout.zoom.rightBorder
  /\ zout.follow.min = zin.rangeMin
  /\ zout.follow.max = zin.rangeMin + zin.span
  /\ zout.follow.max > zin.fc + CDiv2(zin.span)

C21_ReadAfterWrite ==
  last.op = "getGain"
    => IF <<last.arg[1], last.arg[2]>> \in DOMAIN zin
       THEN zout.has /\ zout.get = zin[<<last.arg[1], last.arg[2]>>]
       ELSE ~zout.has /\ zout.get = 0

\* C22: set(d1, s1, v) leaves get(d2, s2) and has(d2, s2) as they were for
\* every other pair (d2, s2), names containing '.' included.
C22_OtherPairsUntouched ==
  [][last'.op = "setGain" =>
       \A dev \in DevNames \cup {<<"rtlsdr">>}, name \in StageNames :
         <<dev, name>> # <<last'.arg[1], last'.arg[2]>>
           => /\ hasGain(dlg', dev, name) = hasGain(dlg, dev, name)
              /\ getGain(dlg', dev, name) = getGain(dlg, dev, name)]_vars

\* C23: preferredRttMs returns 5 for rtlsdr, 16 for airspy, 10 for hackrf,
\* 2 for uhd and 0 for any other driver; on device selection a result of 0
\* leaves the rtt as it was and any other result replaces it.
C23_PreferredRtt ==
  zout # <<>>
    => /\ zin.driver = "rtlsdr" => zout.preferred = 5
       /\ zin.driver = "airspy" => zout.preferred = 16
       /\ zin.driver = "hackrf" => zout.preferred = 10
       /\ zin.driver = "uhd" => zout.preferred = 2
       /\ zin.driver \notin {"rtlsdr", "airspy", "hackrf", "uhd"} => zout.preferred = 0
       /\ zout.rtt = IF zout.preferred = 0 THEN zin.rtt ELSE zout.preferred

C23_Witness ==
  /\ zout # <<>>
  /\ zin.driver = "soapy"
  /\ zin.rtt = 7
  /\ zout.preferred = 0
  /\ zout.rtt = 7

(* ------------------------ loading the band plans ---------------------- *)
TableNames == <<"ITU", "Amateur">>

BandObjects == {ValidBand, NoMinBand, NotABand}

BandLists == UNION {[1..n -> BandObjects] : n \in 0..MaxBands}

\* the catalogues the Suscan singleton may hold
Catalogs ==
  UNION {{[i \in 1..n |-> [name |-> TableNames[i], bands |-> f[i]]] :
            f \in [1..n -> BandLists]} : n \in 0..Len(TableNames)}

InitFat ==
  /\ dlg = InitDialog
  /\ last = NoOp
  /\ zin \in Catalogs
  /\ zout = <<>>
  /\ loop = InitLoop
  /\ exp = InitExport

\* run() with the catalogue zin
RunCatalog ==
  /\ ~dlg.executing
  /\ Do("run", <<>>, run_begin(Begin(dlg), zin))

\* the user picks an entry of the band plan combo
BandPlanActivated ==
  /\ \E i \in 0..(Len(dlg.allocationCombo.data) - 1) :
       Do("onBandPlanChanged", i,
          onBandPlanChanged([Begin(dlg) EXCEPT !.allocationCombo.currentIndex = i]))

NextFat ==
  \/ SetGuiConfig
  \/ RunCatalog
  \/ BandPlanActivated

SpecFat == InitFat /\ [][NextFat]_vars

\* C24 as stated: after the load every table holds exactly the entries that
\* carry both limits, in order; an entry without "min" is skipped
C24_OnlyValidEntries ==
  dlg.executing =>
    /\ Len(dlg.m_FATs) = Len(zin)
    /\ \A t \in 1..Len(zin) :
         LET objs == zin[t].bands
             idx  == {i \in 1..Len(objs) :
                        objs[i].object /\ {"min", "max"} \subseteq objs[i].fields}
             bands == dlg.m_FATs[t].bands
         IN  /\ dlg.m_FATs[t].name = zin[t].name
             /\ Len(bands) = Cardinality(idx)
             /\ \A i \in idx :
                  bands[Cardinality({j \in idx : j <= i})] =
                    [min |-> objs[i].min, max |-> objs[i].max]

\* C24 amended: after the load every table of the catalogue is there, in
\* order, and holds one band for every entry that is an object, in order; a
\* limit the entry lacks reads 0; only the entries whose deserialization
\* throws are passed over
C24_DefaultsAndSkips ==
  dlg.executing =>
    /\ Len(dlg.m_FATs) = Len(zin)
    /\ \A t \in 1..Len(zin) :
         LET objs == zin[t].bands
             idx  == {i \in 1..Len(objs) : objs[i].object}
             bands == dlg.m_FATs[t].bands
         IN  /\ dlg.m_FATs[t].name = zin[t].name
             /\ Len(bands) = Cardinality(idx)
             /\ \A i \in idx :
                  bands[Cardinality({j \in idx : j <= i})] =
                    [min |-> IF "min" \in objs[i].fields THEN objs[i].min ELSE 0,
                     max |-> IF "max" \in objs[i].fields THEN objs[i].max ELSE 0]

\* a catalogue whose first table has a throwing entry before a band without
\* "min", and whose second table is not empty, has been loaded
C24_Witness ==
  /\ dlg.executing
  /\ Len(zin) = 2
  /\ zin[1].bands = <<NotABand, NoMinBand>>
  /\ zin[2].bands = <<ValidBand>>
  /\ dlg.m_FATs[1].bands = <<[min |-> 0, max |-> 2]>>
  /\ dlg.m_FATs[2].bands = <<[min |-> 1, max |-> 2]>>

\* C25: the renderer never holds more than one band plan; right after a
\* selection handled with a renderer it holds exactly the table selected
\* (overlay shown, m_currentFAT its name), or, for "(No bandplan)", no table
\* at all (overlay hidden, m_currentFAT empty)
C25_SingleOverlay ==
  /\ Cardinality(dlg.wf.FATs) <= 1
  /\ \A f \in dlg.wf.FATs : f.name = dlg.m_currentFAT
  /\ (last.op = "onBandPlanChanged" /\ dlg.m_waterfall) =>
       LET val == dlg.allocationCombo.data[last.arg + 1]
       IN  IF val >= 0
           THEN /\ dlg.wf.FATs = {dlg.m_FATs[val + 1]}
                /\ dlg.wf.FATsVisible
                /\ dlg.m_currentFAT = dlg.m_FATs[val + 1].name
           ELSE /\ dlg.wf.FATs = {}
                /\ ~dlg.wf.FATsVisible
                /\ dlg.m_currentFAT = ""

\* the second table of a catalogue of two has just been selected and is the
\* only one in the renderer
C25_Witness ==
  /\ last.op = "onBandPlanChanged"
  /\ last.arg = 2
  /\ dlg.m_waterfall
  /\ Len(dlg.m_FATs) = 2
  /\ dlg.wf.FATs = {dlg.m_FATs[2]}
  /\ dlg.m_currentFAT = "Amateur"

(* ---------------------- the device the main window uses ---------------- *)
BannedChoices == {""} \cup {d.desc : d \in Devices}

\* the application names the device in use by the main window, or none
SetBannedDevice ==
  /\ \E desc \in BannedChoices \ {dlg.m_bannedDevice} :
       Do("setBannedDevice", <<desc>>, setBannedDevice(Begin(dlg), desc))

NextBan ==
  \/ SetGuiConfig
  \/ Run
  \/ SetBannedDevice
  \/ DeviceActivated
  \/ ScanClicked
  \/ SetRunning

SpecBan == Init /\ [][NextBan]_vars

\* C26: a click that checks the scan button while the selected device is the
\* non-empty banned one emits neither start() nor stop() and leaves the
\* button unchecked with the label "Start scan"; every other click that
\* checks the button emits start() exactly once
C26_NoScanOnBannedDevice ==
  [][(last'.op = "toggleScan" /\ ~dlg.scanButton) =>
       IF dlg.m_bannedDevice # "" /\ dlg.deviceCombo = dlg.m_bannedDevice
       THEN /\ \A i \in DOMAIN dlg'.emitted :
                 dlg'.emitted[i].sig \notin {"start", "stop"}
            /\ ~dlg'.scanButton
            /\ dlg'.scanButtonText = "Start scan"
       ELSE /\ Cardinality({i \in DOMAIN dlg'.emitted :
                              dlg'.emitted[i].sig = "start"}) = 1
            /\ dlg'.scanButton
            /\ dlg'.scanButtonText = "Stop"]_vars

\* the scan button was clicked with the banned device selected and stayed
\* unchecked
C26_Witness ==
  /\ last.op = "toggleScan"
  /\ dlg.m_bannedDevice = "devB"
  /\ dlg.deviceCombo = "devB"
  /\ ~dlg.scanButton
  /\ dlg.emitted = <<>>

(* ------------------------ the preferred sample rate -------------------- *)
\* the rates the user types in
RateChoices == {2, 3}

\* the user edits the sample rate
SampleRateEdited ==
  /\ dlg.executing /\ dlg.enabled.sampleRateSpin
  /\ \E v \in RateChoices \ {dlg.sampleRateSpin} :
       Do("sampleRate", <<v>>, setSampleRateValue(Begin(dlg), v))

NextRate ==
  \/ SetGuiConfig
  \/ Run
  \/ ScanClicked
  \/ SetRunning
  \/ SetMinBwForZoom
  \/ SampleRateEdited

SpecRate == Init /\ [][NextRate]_vars

\* C27: from the step that starts a scan to the step that ends it the stored
\* sampRate does not change, whatever the sample-rate control is set to in
\* between, and the step that ends the scan leaves the control showing it
C27_SampRateSurvivesScan ==
  [][/\ (dlg.m_running \/ dlg'.m_running) => dlg'.sampRate = dlg.sampRate
     /\ (dlg.m_running /\ ~dlg'.m_running) =>
          dlg'.sampleRateSpin = dlg.sampRate]_vars

\* a scan has just ended with the control away from the preferred rate
\* until then
C27_Witness ==
  /\ last.op = "setRunning"
  /\ last.arg = <<FALSE>>
  /\ ~dlg.m_running
  /\ dlg.m_minBwForZoom # 0
  /\ dlg.m_minBwForZoom # dlg.sampRate
  /\ dlg.sampleRateSpin = dlg.sampRate

(* --------------------------- closing the dialog ------------------------ *)
\* exec() returns: the dialog was closed
Close ==
  /\ dlg.executing
  /\ Do("close", <<>>, run_end(Begin(dlg)))

NextClose ==
  \/ SetGuiConfig
  \/ Run
  \/ SetBannedDevice
  \/ FullRangeToggled
  \/ DeviceActivated
  \/ ScanClicked
  \/ SetRunning
  \/ Close

SpecClose == Init /\ [][NextClose]_vars

\* C28: the step in which exec() returns saves the widgets' values to the
\* configuration, leaves the scan button unchecked and emits stop() at least
\* once; no step that ends with the dialog closed emits start()
C28_CloseEndsScan ==
  [][/\ ~dlg'.executing =>
          \A i \in DOMAIN dlg'.emitted : dlg'.emitted[i].sig # "start"
     /\ (dlg.executing /\ ~dlg'.executing) =>
          /\ dlg'.m_dialogConfig =
               [device    |-> dlg.deviceCombo,
                lnbFreq   |-> dlg.lnbDoubleSpinBox,
                rangeMin  |-> dlg.rangeStartSpin.value,
                rangeMax  |-> dlg.rangeEndSpin.value,
                fullRange |-> dlg.fullRangeCheck]
          /\ ~dlg'.scanButton
          /\ dlg'.scanButtonText = "Start scan"
          /\ \E i \in DOMAIN dlg'.emitted : dlg'.emitted[i].sig = "stop"]_vars

\* the dialog was closed during a scan, with the second device selected
C28_Witness ==
  /\ last.op = "close"
  /\ dlg.m_running
  /\ ~dlg.executing
  /\ ~dlg.scanButton
  /\ dlg.m_dialogConfig.device = "devB"
  /\ dlg.emitted = <<Plain("stop"), Plain("stop")>>

====
